---- MODULE Spec2Model ----
(***************************************************************************)
(* State-machine model of PokemonTodoApp (src/src/main.ts): the in-memory  *)
(* todo list, its filtered view, the filter selection, the displayed stats *)
(* and the value stored in localStorage under the key 'pokemonTodos'.      *)
(* Every user event handler is one action; an action covers the whole      *)
(* handler, including save, filter, render and stats.                      *)
(***************************************************************************)
EXTENDS Integers, Sequences, FiniteSets, TLC

VARIABLES
    todos,          \* this.todos
    filteredTodos,  \* this.filteredTodos
    currentFilter,  \* this.currentFilter
    storage,        \* localStorage entry under 'pokemonTodos'
    rendered,       \* the list painted into this.todoList by renderTodos
    stats,          \* the numbers painted by updateStats
    errorVisible,   \* this.errorMessage.style.display = 'block'
    now,            \* the wall clock read by Date.now() and new Date()
    writeFailures,  \* how many times localStorage.setItem has thrown so far
    timers,         \* the clock readings at which showError set a timeout that is still to run
    lastOp          \* log of the last handler that ran: its arguments and what it did

vars == <<todos, filteredTodos, currentFilter, storage, rendered, stats,
          errorVisible, now, writeFailures, timers, lastOp>>

----------------------------------------------------------------------------
(* Bounds of the model *)

MaxTodos == 2
MaxClock == 2
MaxWriteFailures == 1
MaxStatsTodos == 40

----------------------------------------------------------------------------
(* Values *)

PokemonType == {"fire", "water", "grass", "electric", "psychic", "normal"}

\* The array 'types' of addTodo.
types == <<"fire", "water", "grass", "electric", "psychic", "normal">>

\* Values Math.random() returns, in hundredths: the ends 0.00 and 0.99 of [0, 1).
RandomDraws == {0, 99}

\* types[Math.floor(Math.random() * types.length)] (the array is 0-based).
RandomType(random) == types[((random * Len(types)) \div 100) + 1]

Filters == {"all", "completed", "pending"}

\* Characters String.prototype.trim removes (the ones the inputs use).
WhiteSpace == {" ", "\t"}

\* Values of todoInput.value the user submits, as sequences of characters.
Inputs ==
    { <<>>,
      <<"\t", " ">>,
      <<"a">>,
      <<" ", "a", "\t">> }

\* Ids a toggle or delete may name: every clock reading, and the id of a
\* record of an earlier session.
Ids == 0..MaxClock

\* A Date object: its time value, or NaN (an Invalid Date).
NewDate(ms) == [valid |-> TRUE, ms |-> ms]
InvalidDate == [valid |-> FALSE, ms |-> 0]

----------------------------------------------------------------------------
(* String.prototype.trim *)

RECURSIVE TrimStart(_)
TrimStart(s) ==
    IF s # <<>> /\ Head(s) \in WhiteSpace THEN TrimStart(Tail(s)) ELSE s

RECURSIVE TrimEnd(_)
TrimEnd(s) ==
    IF s # <<>> /\ s[Len(s)] \in WhiteSpace
    THEN TrimEnd(SubSeq(s, 1, Len(s) - 1))
    ELSE s

\* The input taken as typed, the call of trim() forgotten.
Trim_none(s) == s

Trim(s) == TrimEnd(TrimStart(s))

----------------------------------------------------------------------------
(* JSON.stringify(this.todos) and JSON.parse + map of loadTodos             *)

\* Date.prototype.toJSON: the ISO string of a valid date, null for NaN.
DateToJSON(d) ==
    IF d.valid THEN [k |-> "iso", ms |-> d.ms] ELSE [k |-> "null", ms |-> 0]

\* new Date(v) for a parsed JSON value v: an ISO string gives its time,
\* null gives time 0, any other string gives an Invalid Date.
DateFromJSON(j) ==
    CASE j.k = "iso"  -> NewDate(j.ms)
      [] j.k = "null" -> NewDate(0)
      [] OTHER        -> InvalidDate

TodoToJSON(todo) ==
    [k |-> "rec", id |-> todo.id, text |-> todo.text,
     completed |-> todo.completed, createdAt |-> DateToJSON(todo.createdAt),
     type |-> todo.type]

JSONstringify(t) ==
    [k |-> "array", items |-> [i \in 1..Len(t) |-> TodoToJSON(t[i])]]

\* The callback of parsedTodos.map in loadTodos.
Rehydrate(item) ==
    [id |-> item.id, text |-> item.text, completed |-> item.completed,
     createdAt |-> DateFromJSON(item.createdAt), type |-> item.type]

\* The stored value when the key was never written.
Absent == [k |-> "absent", items |-> <<>>]

\* The values found under the key when the page opens: nothing, the empty
\* string, text that is not JSON, JSON that is not an array, an array holding
\* null, and arrays of records (saved by an earlier session, or with a
\* createdAt that is not a date string).
StoredRecord(c, d) ==
    [k |-> "rec", id |-> 0, text |-> <<"a">>, completed |-> c,
     createdAt |-> d, type |-> "fire"]

InitialStores ==
    { Absent,
      [k |-> "empty", items |-> <<>>],
      [k |-> "garbage", items |-> <<>>],
      [k |-> "nonarray", items |-> <<>>],
      [k |-> "array", items |-> << [k |-> "null"] >>],
      [k |-> "array", items |-> <<>>],
      [k |-> "array", items |-> << StoredRecord(FALSE, [k |-> "iso", ms |-> 0]) >>],
      [k |-> "array", items |-> << StoredRecord(TRUE, [k |-> "str", ms |-> 0]) >>] }

\* The body of the try block of loadTodos throws: JSON.parse on text that is
\* not JSON (SyntaxError), parsedTodos.map on a value that is not an array,
\* or todo.createdAt on a null element (TypeError).
LoadThrows(store) ==
    \/ store.k = "garbage"
    \/ store.k = "nonarray"
    \/ /\ store.k = "array"
       /\ \E i \in 1..Len(store.items) : store.items[i].k = "null"

\* loadTodos without its try/catch: what throws leaves the method.
LoadTodos_uncaught(store) ==
    IF store.k \in {"absent", "empty"}
    THEN [todos |-> <<>>, caught |-> FALSE, escaped |-> FALSE]
    ELSE IF LoadThrows(store)
    THEN [todos |-> <<>>, caught |-> FALSE, escaped |-> TRUE]
    ELSE [todos |-> [i \in 1..Len(store.items) |-> Rehydrate(store.items[i])],
          caught |-> FALSE, escaped |-> FALSE]

\* loadTodos putting each parsed record in front of the ones before it.
LoadTodos_reversed(store) ==
    IF store.k \in {"absent", "empty"}
    THEN [todos |-> <<>>, caught |-> FALSE, escaped |-> FALSE]
    ELSE IF LoadThrows(store)
    THEN [todos |-> <<>>, caught |-> TRUE, escaped |-> FALSE]
    ELSE [todos |-> [i \in 1..Len(store.items) |->
                        Rehydrate(store.items[Len(store.items) + 1 - i])],
          caught |-> FALSE, escaped |-> FALSE]

\* loadTodos: the collection it leaves in this.todos (a fresh object holds
\* []), whether the catch block ran (console.error), and whether an exception
\* left the method.
LoadTodos(store) ==
    IF store.k \in {"absent", "empty"}
    THEN \* getItem gave null or '': the if is skipped
         [todos |-> <<>>, caught |-> FALSE, escaped |-> FALSE]
    ELSE IF LoadThrows(store)
    THEN [todos |-> <<>>, caught |-> TRUE, escaped |-> FALSE]
    ELSE [todos |-> [i \in 1..Len(store.items) |-> Rehydrate(store.items[i])],
          caught |-> FALSE, escaped |-> FALSE]

----------------------------------------------------------------------------
(* filterTodos, updateStats, saveTodos *)

RECURSIVE FilterCompleted(_, _)
FilterCompleted(t, wanted) ==
    IF t = <<>> THEN <<>>
    ELSE IF Head(t).completed = wanted
         THEN <<Head(t)>> \o FilterCompleted(Tail(t), wanted)
         ELSE FilterCompleted(Tail(t), wanted)

\* filterTodos with the predicates of the two cases exchanged.
FilterTodos_swapped(t, filter) ==
    CASE filter = "completed" -> FilterCompleted(t, FALSE)
      [] filter = "pending"   -> FilterCompleted(t, TRUE)
      [] OTHER                -> t

FilterTodos(t, filter) ==
    CASE filter = "completed" -> FilterCompleted(t, TRUE)
      [] filter = "pending"   -> FilterCompleted(t, FALSE)
      [] OTHER                -> t

\* ---- The double arithmetic of updateStats: (completed / total) * 100 ----
\* A positive double has a significand of 53 bits whose first bit is 1. It is
\* kept in three limbs, [hi |-> the first 17 bits, mid |-> the next 18, lo |->
\* the last 18, e |-> the exponent of the last bit]: its value is
\* (hi * 2^36 + mid * 2^18 + lo) * 2^e.

\* The double +0.
Zero == [hi |-> 0, mid |-> 0, lo |-> 0, e |-> 0]

\* Carry the limbs' overflow upwards; a significand that reached 2^53 is 2^52
\* with the exponent one higher.
Carry(hi, mid, lo, e) ==
    LET mid1 == mid + lo \div 2^18
        hi1  == hi + mid1 \div 2^18
    IN  IF hi1 = 2^17
        THEN [hi |-> 2^16, mid |-> 0, lo |-> 0, e |-> e + 1]
        ELSE [hi |-> hi1, mid |-> mid1 % 2^18, lo |-> lo % 2^18, e |-> e]

\* completed / total, for 0 <= completed <= total < 2^12, by long division:
\* z binary zeros follow the point, then come the 53 bits of the significand;
\* what is left decides the rounding, to the nearest, a tie to the even.
Divide(completed, total) ==
    IF completed = 0 THEN Zero
    ELSE IF completed = total
    THEN [hi |-> 2^16, mid |-> 0, lo |-> 0, e |-> -52]
    ELSE LET z  == CHOOSE k \in 0..12 :
                       completed * 2^k < total /\ completed * 2^(k + 1) >= total
             n1 == completed * 2^z * 2^17
             n2 == (n1 % total) * 2^18
             n3 == (n2 % total) * 2^18
             lo == n3 \div total
             up == \/ 2 * (n3 % total) > total
                   \/ 2 * (n3 % total) = total /\ lo % 2 = 1
         IN  Carry(n1 \div total, n2 \div total,
                   lo + (IF up THEN 1 ELSE 0), -(53 + z))

\* x * 100: the product has 59 or 60 bits, its last d = 6 or 7 are rounded
\* away, to the nearest, a tie to the even.
Times100(x) ==
    IF x = Zero THEN Zero
    ELSE LET plo  == x.lo * 100
             pmid == x.mid * 100 + plo \div 2^18
             phi  == x.hi * 100 + pmid \div 2^18
             d    == IF phi >= 2^23 THEN 7 ELSE 6
             rest == (plo % 2^18) % 2^d
             lo   == (plo % 2^18) \div 2^d + ((pmid % 2^18) % 2^d) * 2^(18 - d)
             mid  == (pmid % 2^18) \div 2^d + (phi % 2^d) * 2^(18 - d)
             up   == \/ rest > 2^(d - 1)
                     \/ rest = 2^(d - 1) /\ lo % 2 = 1
         IN  Carry(phi \div 2^d, mid, lo + (IF up THEN 1 ELSE 0), x.e + d)

\* Math.round(y) for a double 0 <= y < 2^7: floor(y + 1/2). The bits that
\* count 1/2 and more are all in y.hi, whose last bit counts 2^(y.e + 36).
MathRound(y) ==
    LET f == -(y.e + 36)   \* how many bits of y.hi follow the binary point
    IN  IF y = Zero \/ f > 17 THEN 0 ELSE (y.hi \div 2^(f - 1) + 1) \div 2

UpdateStats(t) ==
    LET total     == Len(t)
        completed == Len(FilterCompleted(t, TRUE))
    IN  [total |-> total,
         completed |-> completed,
         pending |-> total - completed,
         completionRate |-> IF total > 0
                            THEN MathRound(Times100(Divide(completed, total)))
                            ELSE 0]

\* What the stats elements show before updateStats has painted them.
NoStats == [total |-> -1, completed |-> -1, pending |-> -1, completionRate |-> -1]

\* push in place of unshift: the new task goes last.
Unshift_push(t, newTodo) == t \o <<newTodo>>

\* this.todos.unshift(newTodo)
Unshift(t, newTodo) == <<newTodo>> \o t

\* saveTodos that never reaches setItem.
SaveTodos_unwritten(t, store, fails) ==
    IF fails
    THEN [storage |-> store, escaped |-> FALSE, logged |-> TRUE, notices |-> <<"error">>]
    ELSE [storage |-> store, escaped |-> FALSE, logged |-> FALSE, notices |-> <<>>]

\* saveTodos without its try/catch: a failing setItem throws to the handler.
SaveTodos_uncaught(t, store, fails) ==
    IF fails
    THEN [storage |-> store, escaped |-> TRUE, logged |-> FALSE, notices |-> <<>>]
    ELSE [storage |-> JSONstringify(t), escaped |-> FALSE, logged |-> FALSE, notices |-> <<>>]

\* saveTodos: setItem either stores the serialization or throws; the catch
\* block logs, shows an error toast and lets nothing escape.
SaveTodos(t, store, fails) ==
    IF fails
    THEN [storage |-> store, escaped |-> FALSE, logged |-> TRUE, notices |-> <<"error">>]
    ELSE [storage |-> JSONstringify(t), escaped |-> FALSE, logged |-> FALSE, notices |-> <<>>]

----------------------------------------------------------------------------
(* The log of a handler run *)

\* What a handler that did nothing yet has logged; each handler overrides the
\* fields it sets.
NoOp ==
    [op         |-> "none",
     input      |-> <<>>,     \* todoInput.value
     id         |-> 0,        \* the id argument
     asked      |-> FALSE,    \* confirm() was called
     answer     |-> FALSE,    \* what confirm() returned
     saved      |-> FALSE,    \* saveTodos was called
     saveFailed |-> FALSE,    \* setItem threw
     logged     |-> FALSE,    \* console.error was called
     escaped    |-> FALSE,    \* an exception left the handler
     error      |-> FALSE,    \* showError was called
     notices    |-> <<>>,     \* the kinds of the toasts shown, in order
     timer      |-> 0,        \* the clock reading at which the timeout that ran was set
     before     |-> <<>>]     \* toggleTodoStatus: this.todos when it was called

----------------------------------------------------------------------------
(* constructor *)

\* loadTodos, filterTodos, renderTodos, updateStats on a fresh object whose
\* currentFilter is 'all'. An exception leaving loadTodos would end the
\* constructor there, with nothing filtered or painted.
Construct(store) ==
    LET ld == LoadTodos(store)
        f  == FilterTodos(ld.todos, "all")
        log == [NoOp EXCEPT !.op = "constructor", !.logged = ld.caught,
                            !.escaped = ld.escaped]
    IN  IF ld.escaped
        THEN [todos |-> ld.todos, filteredTodos |-> <<>>, rendered |-> <<>>,
              stats |-> NoStats, lastOp |-> log]
        ELSE [todos |-> ld.todos, filteredTodos |-> f, rendered |-> f,
              stats |-> UpdateStats(ld.todos), lastOp |-> log]

Init ==
    /\ storage \in InitialStores
    /\ now = 1
    /\ writeFailures = 0
    /\ currentFilter = "all"
    /\ errorVisible = FALSE
    /\ timers = {}
    /\ todos = Construct(storage).todos
    /\ filteredTodos = Construct(storage).filteredTodos
    /\ rendered = Construct(storage).rendered
    /\ stats = Construct(storage).stats
    /\ lastOp = Construct(storage).lastOp

\* The page is opened again: DOMContentLoaded runs new PokemonTodoApp(). The
\* timeouts of the page that was left are gone with it.
Reload ==
    /\ currentFilter' = "all"
    /\ errorVisible' = FALSE
    /\ timers' = {}
    /\ todos' = Construct(storage).todos
    /\ filteredTodos' = Construct(storage).filteredTodos
    /\ rendered' = Construct(storage).rendered
    /\ stats' = Construct(storage).stats
    /\ lastOp' = Construct(storage).lastOp
    /\ UNCHANGED <<storage, now, writeFailures>>

\* Time passes between two events.
Tick ==
    /\ now < MaxClock
    /\ now' = now + 1
    /\ lastOp' = [NoOp EXCEPT !.op = "tick"]
    /\ UNCHANGED <<todos, filteredTodos, currentFilter, storage, rendered,
                   stats, errorVisible, writeFailures, timers>>

----------------------------------------------------------------------------
(* Handlers *)

\* The tail shared by the mutating handlers: this.todos holds t, then
\* saveTodos(); filterTodos(); renderTodos(); updateStats(). An exception
\* leaving saveTodos would skip the rest of the handler.
SaveFilterRenderStats(t, fails) ==
    LET sv == SaveTodos(t, storage, fails)
    IN  /\ fails => writeFailures < MaxWriteFailures
        /\ writeFailures' = IF fails THEN writeFailures + 1 ELSE writeFailures
        /\ todos' = t
        /\ storage' = sv.storage
        /\ IF sv.escaped
           THEN UNCHANGED <<filteredTodos, rendered, stats>>
           ELSE /\ filteredTodos' = FilterTodos(t, currentFilter)
                /\ rendered' = FilterTodos(t, currentFilter)
                /\ stats' = UpdateStats(t)

\* The log fields saveTodos and the success toast leave.
Saved(log, t, fails, toast) ==
    LET sv == SaveTodos(t, storage, fails)
    IN  [log EXCEPT !.saved = TRUE, !.saveFailed = fails, !.logged = sv.logged,
                    !.escaped = sv.escaped,
                    !.notices = IF sv.escaped THEN sv.notices
                                ELSE sv.notices \o toast]

\* setFilter without its call of filterTodos.
SetFilter_stale(filter) ==
    /\ currentFilter' = filter
    /\ filteredTodos' = filteredTodos
    /\ rendered' = filteredTodos
    /\ lastOp' = [NoOp EXCEPT !.op = "setFilter"]
    /\ UNCHANGED <<todos, storage, stats, errorVisible, now, writeFailures, timers>>

SetFilter(filter) ==
    /\ currentFilter' = filter
    /\ filteredTodos' = FilterTodos(todos, filter)
    /\ rendered' = FilterTodos(todos, filter)
    /\ lastOp' = [NoOp EXCEPT !.op = "setFilter"]
    /\ UNCHANGED <<todos, storage, stats, errorVisible, now, writeFailures, timers>>

\* addTodo with an input that trims to nothing: showError and return.
\* showError displays the message and sets a timeout of 3 seconds for
\* hideError; it cancels no timeout set before. Timeouts set at one clock
\* reading are due together and run back to back: they are kept as one.
AddTodoRejected(input) ==
    /\ Trim(input) = <<>>
    /\ errorVisible' = TRUE
    /\ timers' = timers \cup {now}
    /\ lastOp' = [NoOp EXCEPT !.op = "addTodo", !.input = input, !.error = TRUE]
    /\ UNCHANGED <<todos, filteredTodos, currentFilter, storage, rendered,
                   stats, now, writeFailures>>

\* addTodo with a usable input: the id is Date.now(), createdAt is new Date()
\* built in the same statement (the clock does not tick inside a handler),
\* the type a random pick.
AddTodoAccepted(input, random, fails) ==
    LET newTodo == [id |-> now, text |-> Trim(input), completed |-> FALSE,
                    createdAt |-> NewDate(now), type |-> RandomType(random)]
        t       == Unshift(todos, newTodo)
    IN  /\ Trim(input) # <<>>
        /\ Len(todos) < MaxTodos
        /\ SaveFilterRenderStats(t, fails)
        /\ errorVisible' = IF SaveTodos(t, storage, fails).escaped
                           THEN errorVisible ELSE FALSE
        /\ lastOp' = Saved([NoOp EXCEPT !.op = "addTodo", !.input = input],
                           t, fails, <<"success">>)
        /\ UNCHANGED <<currentFilter, now, timers>>

AddTodo ==
    \E input \in Inputs :
        \/ AddTodoRejected(input)
        \/ \E random \in RandomDraws, fails \in BOOLEAN :
               AddTodoAccepted(input, random, fails)

\* this.todos.find(todo => todo.id === id) found something.
Found(t, id) == \E i \in 1..Len(t) : t[i].id = id

\* this.todos.filter(todo => todo.id !== id)
RECURSIVE WithoutId(_, _)
WithoutId(t, id) ==
    IF t = <<>> THEN <<>>
    ELSE IF Head(t).id # id
         THEN <<Head(t)>> \o WithoutId(Tail(t), id)
         ELSE WithoutId(Tail(t), id)

\* The map flipping every flag instead of setting it.
AllCompleted_flip(t, c) ==
    [i \in 1..Len(t) |-> [t[i] EXCEPT !.completed = ~t[i].completed]]

\* The map whose result is dropped: this.todos keeps its tasks as they were.
AllCompleted_dropped(t, c) == t

\* this.todos.map(todo => ({ ...todo, completed: c }))
AllCompleted(t, c) == [i \in 1..Len(t) |-> [t[i] EXCEPT !.completed = c]]

\* The map of toggleTodoStatus setting the flag instead of flipping it.
Toggled_set(t, id) ==
    [i \in 1..Len(t) |->
        IF t[i].id = id THEN [t[i] EXCEPT !.completed = TRUE] ELSE t[i]]

\* The map of toggleTodoStatus without the test of the id.
Toggled_all(t, id) ==
    [i \in 1..Len(t) |-> [t[i] EXCEPT !.completed = ~t[i].completed]]

\* The map of toggleTodoStatus.
Toggled(t, id) ==
    [i \in 1..Len(t) |->
        IF t[i].id = id THEN [t[i] EXCEPT !.completed = ~t[i].completed] ELSE t[i]]

\* A handler that returned without touching the state.
Untouched ==
    UNCHANGED <<todos, filteredTodos, currentFilter, storage, rendered, stats,
                errorVisible, now, writeFailures, timers>>

\* deleteTodo without the return for an id that is not found.
DeleteTodo_unchecked(id, answer, fails) ==
    LET log == [NoOp EXCEPT !.op = "deleteTodo", !.id = id]
    IN  IF ~answer
        THEN /\ lastOp' = [log EXCEPT !.asked = TRUE, !.answer = FALSE]
             /\ Untouched
        ELSE /\ SaveFilterRenderStats(WithoutId(todos, id), fails)
             /\ lastOp' = Saved([log EXCEPT !.asked = TRUE, !.answer = TRUE],
                                WithoutId(todos, id), fails, <<"success">>)
             /\ UNCHANGED <<currentFilter, errorVisible, now, timers>>

DeleteTodo(id, answer, fails) ==
    LET log == [NoOp EXCEPT !.op = "deleteTodo", !.id = id]
    IN  IF ~Found(todos, id)
        THEN /\ lastOp' = log
             /\ Untouched
        ELSE IF ~answer
        THEN /\ lastOp' = [log EXCEPT !.asked = TRUE, !.answer = FALSE]
             /\ Untouched
        ELSE /\ SaveFilterRenderStats(WithoutId(todos, id), fails)
             /\ lastOp' = Saved([log EXCEPT !.asked = TRUE, !.answer = TRUE],
                                WithoutId(todos, id), fails, <<"success">>)
             /\ UNCHANGED <<currentFilter, errorVisible, now, timers>>

\* clearAllTodos without the confirm() around the deletion.
ClearAllTodos_unconfirmed(answer, fails) ==
    LET log == [NoOp EXCEPT !.op = "clearAllTodos"]
    IN  IF Len(todos) = 0
        THEN /\ lastOp' = [log EXCEPT !.notices = <<"warning">>]
             /\ Untouched
        ELSE /\ SaveFilterRenderStats(<<>>, fails)
             /\ lastOp' = Saved(log, <<>>, fails, <<"success">>)
             /\ UNCHANGED <<currentFilter, errorVisible, now, timers>>

ClearAllTodos(answer, fails) ==
    LET log == [NoOp EXCEPT !.op = "clearAllTodos"]
    IN  IF Len(todos) = 0
        THEN /\ lastOp' = [log EXCEPT !.notices = <<"warning">>]
             /\ Untouched
        ELSE IF ~answer
        THEN /\ lastOp' = [log EXCEPT !.asked = TRUE, !.answer = FALSE]
             /\ Untouched
        ELSE /\ SaveFilterRenderStats(<<>>, fails)
             /\ lastOp' = Saved([log EXCEPT !.asked = TRUE, !.answer = TRUE],
                                <<>>, fails, <<"success">>)
             /\ UNCHANGED <<currentFilter, errorVisible, now, timers>>

\* completeAllTodos without the check for pendingTodos === 0.
CompleteAllTodos_unchecked(answer, fails) ==
    LET log          == [NoOp EXCEPT !.op = "completeAllTodos"]
    IN  IF Len(todos) = 0
        THEN /\ lastOp' = [log EXCEPT !.notices = <<"warning">>]
             /\ Untouched
        ELSE IF ~answer
        THEN /\ lastOp' = [log EXCEPT !.asked = TRUE, !.answer = FALSE]
             /\ Untouched
        ELSE /\ SaveFilterRenderStats(AllCompleted(todos, TRUE), fails)
             /\ lastOp' = Saved([log EXCEPT !.asked = TRUE, !.answer = TRUE],
                                AllCompleted(todos, TRUE), fails, <<"success">>)
             /\ UNCHANGED <<currentFilter, errorVisible, now, timers>>

CompleteAllTodos(answer, fails) ==
    LET log          == [NoOp EXCEPT !.op = "completeAllTodos"]
        pendingTodos == Len(FilterCompleted(todos, FALSE))
    IN  IF Len(todos) = 0
        THEN /\ lastOp' = [log EXCEPT !.notices = <<"warning">>]
             /\ Untouched
        ELSE IF pendingTodos = 0
        THEN /\ lastOp' = [log EXCEPT !.notices = <<"info">>]
             /\ Untouched
        ELSE IF ~answer
        THEN /\ lastOp' = [log EXCEPT !.asked = TRUE, !.answer = FALSE]
             /\ Untouched
        ELSE /\ SaveFilterRenderStats(AllCompleted(todos, TRUE), fails)
             /\ lastOp' = Saved([log EXCEPT !.asked = TRUE, !.answer = TRUE],
                                AllCompleted(todos, TRUE), fails, <<"success">>)
             /\ UNCHANGED <<currentFilter, errorVisible, now, timers>>

ResetAllTodos(answer, fails) ==
    LET log            == [NoOp EXCEPT !.op = "resetAllTodos"]
        completedTodos == Len(FilterCompleted(todos, TRUE))
    IN  IF Len(todos) = 0
        THEN /\ lastOp' = [log EXCEPT !.notices = <<"warning">>]
             /\ Untouched
        ELSE IF completedTodos = 0
        THEN /\ lastOp' = [log EXCEPT !.notices = <<"info">>]
             /\ Untouched
        ELSE IF ~answer
        THEN /\ lastOp' = [log EXCEPT !.asked = TRUE, !.answer = FALSE]
             /\ Untouched
        ELSE /\ SaveFilterRenderStats(AllCompleted(todos, FALSE), fails)
             /\ lastOp' = Saved([log EXCEPT !.asked = TRUE, !.answer = TRUE],
                                AllCompleted(todos, FALSE), fails, <<"success">>)
             /\ UNCHANGED <<currentFilter, errorVisible, now, timers>>

ToggleTodoStatus(id, fails) ==
    LET t   == Toggled(todos, id)
        log == [NoOp EXCEPT !.op = "toggleTodoStatus", !.id = id, !.before = todos]
    IN  /\ SaveFilterRenderStats(t, fails)
        /\ lastOp' = Saved(log, t, fails,
                           IF Found(t, id) THEN <<"info">> ELSE <<>>)
        /\ UNCHANGED <<currentFilter, errorVisible, now, timers>>

\* The callback of a timeout set by showError runs: () => this.hideError().
\* The timeouts run in the order they were set, each 3 seconds after the
\* reading at which it was set, so the clock has moved on since then.
HideErrorTimer ==
    \E timer \in timers :
        /\ \A other \in timers : timer <= other
        /\ timer < now
        /\ timers' = timers \ {timer}
        /\ errorVisible' = FALSE
        /\ lastOp' = [NoOp EXCEPT !.op = "hideError", !.timer = timer]
        /\ UNCHANGED <<todos, filteredTodos, currentFilter, storage, rendered,
                       stats, now, writeFailures>>

----------------------------------------------------------------------------

Next ==
    \/ AddTodo
    \/ \E filter \in Filters : SetFilter(filter)
    \/ \E id \in Ids, answer \in BOOLEAN, fails \in BOOLEAN : DeleteTodo(id, answer, fails)
    \/ \E answer \in BOOLEAN, fails \in BOOLEAN : ClearAllTodos(answer, fails)
    \/ \E answer \in BOOLEAN, fails \in BOOLEAN : CompleteAllTodos(answer, fails)
    \/ \E answer \in BOOLEAN, fails \in BOOLEAN : ResetAllTodos(answer, fails)
    \/ \E id \in Ids, fails \in BOOLEAN : ToggleTodoStatus(id, fails)
    \/ HideErrorTimer
    \/ Reload
    \/ Tick

Spec == Init /\ [][Next]_vars

\* The same program on a browser profile whose storage was never written.
InitEmptyStore == Init /\ storage = Absent

SpecEmptyStore == InitEmptyStore /\ [][Next]_vars

\* updateStats on its own, as the last step of the constructor: loadTodos has
\* read a list of up to MaxStatsTodos tasks, the first 'completed' of them
\* done, filterTodos and renderTodos have run, the stats are not painted yet.
StatsTodos(total, completed) ==
    [i \in 1..total |->
        [id |-> i, text |-> <<"a">>, completed |-> (i <= completed),
         createdAt |-> NewDate(i), type |-> types[(i % Len(types)) + 1]]]

InitStats ==
    /\ \E total \in 0..MaxStatsTodos : \E completed \in 0..total :
           todos = StatsTodos(total, completed)
    /\ storage = JSONstringify(todos)
    /\ filteredTodos = FilterTodos(todos, "all")
    /\ rendered = filteredTodos
    /\ currentFilter = "all"
    /\ stats = NoStats
    /\ errorVisible = FALSE
    /\ timers = {}
    /\ now = 1
    /\ writeFailures = 0
    /\ lastOp = [NoOp EXCEPT !.op = "renderTodos"]

PaintStats ==
    /\ lastOp.op = "renderTodos"
    /\ stats' = UpdateStats(todos)
    /\ lastOp' = [NoOp EXCEPT !.op = "constructor"]
    /\ UNCHANGED <<todos, filteredTodos, currentFilter, storage, rendered,
                   errorVisible, now, writeFailures, timers>>

SpecStats == InitStats /\ [][PaintStats]_vars

TypeOK ==
    /\ Len(todos) <= MaxTodos
    /\ currentFilter \in Filters
    /\ now \in 1..MaxClock
    /\ timers \subseteq 1..MaxClock

----------------------------------------------------------------------------
(* Vocabulary of the properties, stated without the operators of the model *)

\* The input consists of white space only (or of nothing).
IsBlank(input) == \A k \in 1..Len(input) : input[k] \in WhiteSpace

\* s is input without its leading and trailing white space.
IsTrimOf(s, input) ==
    /\ s # <<>>
    /\ s[1] \notin WhiteSpace
    /\ s[Len(s)] \notin WhiteSpace
    /\ \E lead \in 0..Len(input) :
          /\ lead + Len(s) <= Len(input)
          /\ SubSeq(input, lead + 1, lead + Len(s)) = s
          /\ \A k \in 1..lead : input[k] \in WhiteSpace
          /\ \A k \in (lead + Len(s) + 1)..Len(input) : input[k] \in WhiteSpace

\* The stored value is an array with one record per task of t, in order,
\* carrying the task's fields (the date as its ISO string).
Describes(store, t) ==
    /\ store.k = "array"
    /\ Len(store.items) = Len(t)
    /\ \A i \in 1..Len(t) :
          /\ store.items[i].k = "rec"
          /\ store.items[i].id = t[i].id
          /\ store.items[i].text = t[i].text
          /\ store.items[i].completed = t[i].completed
          /\ store.items[i].type = t[i].type
          /\ store.items[i].createdAt =
                IF t[i].createdAt.valid
                THEN [k |-> "iso", ms |-> t[i].createdAt.ms]
                ELSE [k |-> "null", ms |-> 0]

\* The handler that just ran went past its checks and changed the collection:
\* an accepted add, a toggle, or a confirmed delete or bulk operation.
Mutating(log) ==
    \/ log.op = "addTodo" /\ ~log.error
    \/ log.op = "toggleTodoStatus"
    \/ /\ log.op \in {"deleteTodo", "clearAllTodos", "completeAllTodos", "resetAllTodos"}
       /\ log.asked
       /\ log.answer

----------------------------------------------------------------------------
(* C1 *)

\* C1: in every reachable state, starting from an empty store, no two tasks
\* of the collection have the same id, two adds at the same clock reading
\* included.
C1_UniqueIds ==
    \A i, j \in 1..Len(todos) : i # j => todos[i].id # todos[j].id

----------------------------------------------------------------------------
(* C2 *)

\* C2: an addTodo whose input is not blank makes the collection one longer;
\* the new task is first, not completed, its text is the trimmed input, its
\* type one of the six labels, and the tasks held before follow it unchanged
\* and in their order.
C2_AddPrepends ==
    [][ (lastOp'.op = "addTodo" /\ ~IsBlank(lastOp'.input)) =>
            /\ Len(todos') = Len(todos) + 1
            /\ todos'[1].completed = FALSE
            /\ IsTrimOf(todos'[1].text, lastOp'.input)
            /\ todos'[1].type \in PokemonType
            /\ \A i \in 1..Len(todos) : todos'[i + 1] = todos[i]
      ]_vars

\* An add of an input with white space around the text, onto a collection
\* that already held a task.
C2_Witness ==
    /\ lastOp.op = "addTodo"
    /\ lastOp.input = <<" ", "a", "\t">>
    /\ Len(todos) = 2
    /\ todos[1].text = <<"a">>

----------------------------------------------------------------------------
(* C3 *)

\* C3: an addTodo whose input is blank shows the validation message and
\* leaves the collection, the filtered view, the filter selection and the
\* stored value unchanged; it does not call saveTodos.
C3_BlankAddRejected ==
    [][ (lastOp'.op = "addTodo" /\ IsBlank(lastOp'.input)) =>
            /\ lastOp'.error
            /\ errorVisible'
            /\ ~lastOp'.saved
            /\ UNCHANGED <<todos, filteredTodos, currentFilter, storage>>
      ]_vars

\* A white-space-only input was rejected while the collection held a task.
C3_Witness ==
    /\ lastOp.op = "addTodo"
    /\ lastOp.input = <<"\t", " ">>
    /\ lastOp.error
    /\ Len(todos) > 0

----------------------------------------------------------------------------
(* C4 *)

\* C4: when confirm() answers no, delete, clear-all, complete-all and
\* reset-all leave the collection, the filtered view, the filter selection
\* and the stored value as they were; these four change the collection only
\* after confirm() answered yes.
C4_DeclineLeavesState ==
    [][ /\ (lastOp'.asked /\ ~lastOp'.answer) =>
               UNCHANGED <<todos, filteredTodos, currentFilter, storage>>
        /\ ( /\ lastOp'.op \in {"deleteTodo", "clearAllTodos",
                                "completeAllTodos", "resetAllTodos"}
             /\ todos' # todos ) =>
               (lastOp'.asked /\ lastOp'.answer)
      ]_vars

\* A declined clear-all on a collection of two tasks.
C4_Witness ==
    /\ lastOp.op = "clearAllTodos"
    /\ lastOp.asked
    /\ ~lastOp.answer
    /\ Len(todos) = 2

----------------------------------------------------------------------------
(* C5 *)

\* C5: when the write does not fail, after every mutating operation the
\* stored value is the serialization of the collection; and once it is, it
\* stays so through every later operation of the session whose write does
\* not fail.
C5_StoredMirrorsTodos ==
    [][ ( /\ lastOp'.op # "constructor"
          /\ ~lastOp'.saveFailed
          /\ (Mutating(lastOp') \/ Describes(storage, todos)) ) =>
            Describes(storage', todos')
      ]_vars

\* A confirmed delete left one task, and the store holds exactly that task.
C5_Witness ==
    /\ lastOp.op = "deleteTodo"
    /\ lastOp.answer
    /\ ~lastOp.saveFailed
    /\ Len(todos) = 1
    /\ Describes(storage, todos)

----------------------------------------------------------------------------
(* C6 *)

\* C6: for every collection the application holds, saving it and loading
\* the stored value at startup gives the same tasks in the same order, with
\* the same id, text, completed flag, type and createdAt.
C6_RoundTrip ==
    [][ (lastOp'.op = "constructor" /\ Describes(storage, todos)) =>
            todos' = todos
      ]_vars

----------------------------------------------------------------------------
(* C7 *)

\* C7: no exception leaves the startup load; with the key absent, or with a
\* stored value that cannot be deserialized, the collection is empty; and
\* startup goes on through filtering, rendering and stats.
C7_StartupFailSafe ==
    lastOp.op = "constructor" =>
        /\ ~lastOp.escaped
        /\ storage.k \in {"absent", "garbage"} => todos = <<>>
        /\ filteredTodos = todos
        /\ rendered = todos
        /\ stats.total = Len(todos)
        /\ stats.pending = stats.total - stats.completed

\* Startup over a stored value that is not JSON: the failure was reported.
C7_Witness ==
    /\ lastOp.op = "constructor"
    /\ storage.k = "garbage"
    /\ lastOp.logged
    /\ stats.total = 0

----------------------------------------------------------------------------
(* C8 *)

\* A stored array element with the shape of a task record.
IsTaskRecord(item) == item.k = "rec" /\ item.createdAt.k = "iso"

\* The stored value parses, but is not an array of task records.
WrongShape(store) ==
    \/ store.k = "nonarray"
    \/ /\ store.k = "array"
       /\ \E i \in 1..Len(store.items) : ~IsTaskRecord(store.items[i])

\* C8: a stored value that parses but is not an array of task records is
\* discarded as a whole: the collection after startup is empty.
C8_WrongShapeDiscarded ==
    (lastOp.op = "constructor" /\ WrongShape(storage)) => todos = <<>>

----------------------------------------------------------------------------
(* C9 *)

\* t2 is what the handler logged in log makes of the collection t.
ResultOf(log, t, t2) ==
    CASE log.op = "addTodo" ->
            /\ Len(t2) = Len(t) + 1
            /\ IsTrimOf(t2[1].text, log.input)
            /\ \A i \in 1..Len(t) : t2[i + 1] = t[i]
      [] log.op = "toggleTodoStatus" ->
            /\ Len(t2) = Len(t)
            /\ \A i \in 1..Len(t) :
                  /\ t2[i].completed = (t[i].completed # (t[i].id = log.id))
                  /\ [t2[i] EXCEPT !.completed = t[i].completed] = t[i]
      [] log.op = "deleteTodo" ->
            t2 = SelectSeq(t, LAMBDA todo : todo.id # log.id)
      [] log.op = "clearAllTodos" ->
            t2 = <<>>
      [] log.op \in {"completeAllTodos", "resetAllTodos"} ->
            /\ Len(t2) = Len(t)
            /\ \A i \in 1..Len(t) :
                  /\ t2[i].completed = (log.op = "completeAllTodos")
                  /\ [t2[i] EXCEPT !.completed = t[i].completed] = t[i]
      [] OTHER -> FALSE

\* The view of t under the selection, and the stats of t.
ViewOf(t, filter) ==
    CASE filter = "completed" -> SelectSeq(t, LAMBDA todo : todo.completed)
      [] filter = "pending"   -> SelectSeq(t, LAMBDA todo : ~todo.completed)
      [] OTHER                -> t

CountsOf(t, st) ==
    /\ st.total = Len(t)
    /\ st.completed = Cardinality({i \in 1..Len(t) : t[i].completed})
    /\ st.pending = Cardinality({i \in 1..Len(t) : ~t[i].completed})

\* C9: when the write fails in a mutating operation, no exception reaches
\* the caller, the collection holds the result of the mutation, the filtered
\* view and the stats are recomputed from it, the failure is reported and the
\* stored value stays what it was.
C9_WriteFailureKeepsMemory ==
    [][ lastOp'.saveFailed =>
            /\ ~lastOp'.escaped
            /\ ResultOf(lastOp', todos, todos')
            /\ filteredTodos' = ViewOf(todos', currentFilter')
            /\ CountsOf(todos', stats')
            /\ lastOp'.logged
            /\ storage' = storage
      ]_vars

\* A complete-all whose write failed under the 'pending' selection: the view
\* is empty now and the store still holds a pending task.
C9_Witness ==
    /\ lastOp.op = "completeAllTodos"
    /\ lastOp.saveFailed
    /\ currentFilter = "pending"
    /\ filteredTodos = <<>>
    /\ Len(todos) = 2
    /\ storage.k = "array"
    /\ \E i \in 1..Len(storage.items) : ~storage.items[i].completed

----------------------------------------------------------------------------
(* C10 *)

\* C10: toggleTodoStatus(id) applied twice in a row gives back exactly the
\* collection held before the first of the two.
C10_ToggleTwiceRestores ==
    [][ ( /\ lastOp.op = "toggleTodoStatus"
          /\ lastOp'.op = "toggleTodoStatus"
          /\ lastOp'.id = lastOp.id ) =>
            todos' = lastOp.before
      ]_vars

\* The second of two toggles of the id of a task of a two-task collection,
\* which is as it was before the first.
C10_Witness ==
    /\ lastOp.op = "toggleTodoStatus"
    /\ Len(todos) = 2
    /\ \E i \in 1..2 : todos[i].id = lastOp.id
    /\ Len(lastOp.before) = 2
    /\ lastOp.before # todos
    /\ \A i \in 1..2 : lastOp.before[i].completed = (todos[i].completed # (todos[i].id = lastOp.id))

----------------------------------------------------------------------------
(* C11, C12 *)

\* t2 holds the tasks of t, in the order of t, differing at most in their
\* completed flags.
SameTasksAndOrder(t, t2) ==
    /\ Len(t2) = Len(t)
    /\ \A i \in 1..Len(t) : [t2[i] EXCEPT !.completed = t[i].completed] = t[i]

\* C11: a confirmed completeAllTodos on a collection with a pending task
\* leaves every task completed, the stats at pending = 0, completed = total
\* and completionRate = 100, and the tasks and their order as they were.
C11_CompleteAll ==
    [][ ( /\ lastOp'.op = "completeAllTodos"
          /\ lastOp'.answer
          /\ \E i \in 1..Len(todos) : ~todos[i].completed ) =>
            /\ \A i \in 1..Len(todos') : todos'[i].completed
            /\ stats'.pending = 0
            /\ stats'.completed = stats'.total
            /\ stats'.total = Len(todos)
            /\ stats'.completionRate = 100
            /\ SameTasksAndOrder(todos, todos')
      ]_vars

\* A confirmed complete-all of two tasks, one of which was already completed
\* (the store still shows it: the write failed).
C11_Witness ==
    /\ lastOp.op = "completeAllTodos"
    /\ lastOp.answer
    /\ lastOp.saveFailed
    /\ Len(todos) = 2
    /\ storage.k = "array"
    /\ Len(storage.items) = 2
    /\ storage.items[1].completed # storage.items[2].completed

\* C12: a confirmed resetAllTodos on a collection with a completed task
\* leaves no task completed, the stats at completed = 0, pending = total and
\* completionRate = 0, and the tasks and their order as they were.
C12_ResetAll ==
    [][ ( /\ lastOp'.op = "resetAllTodos"
          /\ lastOp'.answer
          /\ \E i \in 1..Len(todos) : todos[i].completed ) =>
            /\ \A i \in 1..Len(todos') : ~todos'[i].completed
            /\ stats'.completed = 0
            /\ stats'.pending = stats'.total
            /\ stats'.total = Len(todos)
            /\ stats'.completionRate = 0
            /\ SameTasksAndOrder(todos, todos')
      ]_vars

\* A confirmed reset-all of two tasks, one of which was pending before.
C12_Witness ==
    /\ lastOp.op = "resetAllTodos"
    /\ lastOp.answer
    /\ lastOp.saveFailed
    /\ Len(todos) = 2
    /\ storage.k = "array"
    /\ Len(storage.items) = 2
    /\ storage.items[1].completed # storage.items[2].completed

----------------------------------------------------------------------------
(* C13 *)

\* v picks tasks of t, each once and in the order of t.
IsSubsequence(v, t) ==
    \E pick \in [1..Len(v) -> 1..Len(t)] :
        /\ \A k \in 1..Len(v) : v[k] = t[pick[k]]
        /\ \A k \in 1..Len(v) : \A j \in 1..Len(v) : k < j => pick[k] < pick[j]

\* C13: for the collection and every selection, the view filterTodos computes
\* is an order-preserving subsequence of the collection: 'all' every task,
\* 'completed' exactly the completed ones, 'pending' exactly the others; the
\* completed and the pending view share no task and together hold as many
\* tasks as 'all'; computing a view leaves the collection as it is.
C13_FilterPartitions ==
    [][ /\ \A f \in Filters :
              /\ IsSubsequence(FilterTodos(todos', f), todos')
              /\ FilterTodos(todos', f) = ViewOf(todos', f)
        /\ FilterTodos(todos', "all") = todos'
        /\ \A i \in 1..Len(FilterTodos(todos', "completed")) :
              \A j \in 1..Len(FilterTodos(todos', "pending")) :
                  FilterTodos(todos', "completed")[i] # FilterTodos(todos', "pending")[j]
        /\ Len(FilterTodos(todos', "completed")) + Len(FilterTodos(todos', "pending"))
              = Len(todos')
        /\ lastOp'.op = "setFilter" =>
              /\ todos' = todos
              /\ filteredTodos' = ViewOf(todos, currentFilter')
      ]_vars

\* The 'completed' selection over a collection of a pending and a completed
\* task shows one task.
C13_Witness ==
    /\ lastOp.op = "setFilter"
    /\ currentFilter = "completed"
    /\ Len(todos) = 2
    /\ Len(filteredTodos) = 1
    /\ filteredTodos[1].completed

----------------------------------------------------------------------------
(* C14 *)

\* The bulk handler logged in log found nothing to act on in t.
NothingToDo(log, t) ==
    \/ log.op = "clearAllTodos" /\ Len(t) = 0
    \/ log.op = "completeAllTodos" /\ \A i \in 1..Len(t) : t[i].completed
    \/ log.op = "resetAllTodos" /\ \A i \in 1..Len(t) : ~t[i].completed

\* C14: clear-all on an empty collection, complete-all with no pending task
\* and reset-all with no completed task show a notice and return: confirm()
\* is not called, nothing is saved, and the collection, the filtered view and
\* the stored value are unchanged.
C14_NothingToDo ==
    [][ NothingToDo(lastOp', todos) =>
            /\ ~lastOp'.asked
            /\ ~lastOp'.saved
            /\ Len(lastOp'.notices) = 1
            /\ lastOp'.notices[1] \in {"warning", "info"}
            /\ UNCHANGED <<todos, filteredTodos, storage>>
      ]_vars

\* A complete-all over two completed tasks: the 'info' notice only.
C14_Witness ==
    /\ lastOp.op = "completeAllTodos"
    /\ lastOp.notices = <<"info">>
    /\ Len(todos) = 2
    /\ \A i \in 1..2 : todos[i].completed

----------------------------------------------------------------------------
(* C15 *)

\* The timeout of the message on display: the newest one that is still to
\* run, set by the failed add that showed the message.
TimerOfMessage(pending) == CHOOSE timer \in pending : \A other \in pending : other <= timer

\* C15: a validation message on display goes away only by a successful add,
\* by leaving the page, or by the timeout set by the failed add that showed
\* it, so not before its own 3 seconds have passed, whatever failed adds and
\* timeouts came before.
C15_MessageKeepsItsDelay ==
    [][ (errorVisible /\ ~errorVisible') =>
            \/ lastOp'.op = "addTodo" /\ ~lastOp'.error
            \/ lastOp'.op = "constructor"
            \/ /\ lastOp'.op = "hideError"
               /\ timers # {}
               /\ lastOp'.timer = TimerOfMessage(timers)
      ]_vars

----------------------------------------------------------------------------
(* C16 *)

\* What identifies the tasks of t, in their order.
Keys(t) == [i \in 1..Len(t) |-> <<t[i].id, t[i].text, t[i].type>>]

\* C16: a successful add puts the new task in front of the others; every
\* other handler keeps the tasks that remain in the order they had; and a
\* load of stored records gives them in their stored order.
C16_NewestFirst ==
    [][ /\ (lastOp'.op = "addTodo" /\ ~lastOp'.error) =>
              /\ Len(todos') = Len(todos) + 1
              /\ todos'[1].id = now
              /\ \A i \in 1..Len(todos) : todos'[i + 1] = todos[i]
        /\ (lastOp'.op # "constructor" /\ ~(lastOp'.op = "addTodo" /\ ~lastOp'.error)) =>
              IsSubsequence(Keys(todos'), Keys(todos))
        /\ ( /\ lastOp'.op = "constructor"
             /\ storage.k = "array"
             /\ \A i \in 1..Len(storage.items) : storage.items[i].k = "rec" ) =>
              Keys(todos') = Keys(storage.items)
      ]_vars

\* A page load of two records the application stored, the newer one first.
C16_Witness ==
    /\ lastOp.op = "constructor"
    /\ Len(todos) = 2
    /\ todos[1].id > todos[2].id
    /\ Describes(storage, todos)

----------------------------------------------------------------------------
(* C17 *)

\* C17: within a session no handler changes the id, text, createdAt or type
\* of a task: toggle, complete-all and reset-all change completed flags only
\* (toggle only those of the tasks with the id given), delete and clear-all
\* only remove tasks, and an add leaves the older tasks as they were.
C17_OnlyFlagsChange ==
    [][ /\ lastOp'.op \in {"toggleTodoStatus", "completeAllTodos", "resetAllTodos"} =>
              SameTasksAndOrder(todos, todos')
        /\ lastOp'.op = "toggleTodoStatus" =>
              \A i \in 1..Len(todos) : todos[i].id # lastOp'.id => todos'[i] = todos[i]
        /\ lastOp'.op \in {"deleteTodo", "clearAllTodos"} =>
              IsSubsequence(todos', todos)
        /\ lastOp'.op = "addTodo" =>
              IsSubsequence(todos, todos')
        /\ lastOp'.op \in {"setFilter", "tick", "hideError"} =>
              todos' = todos
      ]_vars

\* A toggle of one of two tasks with different ids: only its flag changed.
C17_Witness ==
    /\ lastOp.op = "toggleTodoStatus"
    /\ Len(todos) = 2
    /\ Len(lastOp.before) = 2
    /\ todos[1].id = lastOp.id
    /\ todos[2].id # lastOp.id
    /\ todos[1].completed # lastOp.before[1].completed
    /\ todos[2] = lastOp.before[2]

----------------------------------------------------------------------------
(* C18 *)

\* How many tasks of t are completed.
CompletedCount(t) == Cardinality({i \in 1..Len(t) : t[i].completed = TRUE})

\* 100 * completed / total rounded to the nearest integer, a half upwards:
\* the largest r with 2 * total * r <= 200 * completed + total.
HalfUpPercent(completed, total) ==
    CHOOSE r \in 0..100 :
        /\ 2 * total * r <= 200 * completed + total
        /\ 200 * completed + total < 2 * total * (r + 1)

\* C18: once updateStats has painted them, the displayed stats are those of
\* the collection: total is the number of tasks, completed the number of
\* completed ones, pending their difference, completionRate 100 * completed /
\* total rounded to the nearest integer with a half going up (0 for an empty
\* collection), and between 0 and 100.
C18_StatsOfCollection ==
    stats # NoStats =>
        /\ stats.total = Len(todos)
        /\ stats.completed = CompletedCount(todos)
        /\ stats.pending = stats.total - stats.completed
        /\ stats.completionRate \in 0..100
        /\ stats.completionRate =
               IF Len(todos) > 0
               THEN HalfUpPercent(CompletedCount(todos), Len(todos))
               ELSE 0

----------------------------------------------------------------------------
(* C19 *)

\* C19: between events the filtered view is the filter of the collection
\* under the selection; the selection is 'all' after construction, only
\* setFilter changes it within a session, and setFilter changes neither the
\* collection nor the stored value.
C19_ViewFollowsSelection ==
    /\ [](/\ filteredTodos = ViewOf(todos, currentFilter)
          /\ lastOp.op = "constructor" => currentFilter = "all")
    /\ [][ /\ currentFilter' # currentFilter =>
                 lastOp'.op \in {"setFilter", "constructor"}
           /\ lastOp'.op = "setFilter" => UNCHANGED <<todos, storage>>
         ]_vars

\* After a toggle under the 'pending' selection the view holds one of the two
\* tasks.
C19_Witness ==
    /\ lastOp.op = "toggleTodoStatus"
    /\ currentFilter = "pending"
    /\ Len(todos) = 2
    /\ Len(filteredTodos) = 1
    /\ Len(FilterTodos(lastOp.before, "pending")) = 2

----------------------------------------------------------------------------
(* C20 *)

\* The task records the stored value holds.
StoredTasks(store) == IF store.k = "array" THEN store.items ELSE <<>>

\* The handler logged in log was given an id no task of t has.
AbsentId(log, t) ==
    /\ log.op \in {"toggleTodoStatus", "deleteTodo"}
    /\ \A i \in 1..Len(t) : t[i].id # log.id

\* C20 as claimed: toggle and delete of an absent id leave the collection and
\* the filtered view unchanged, ask no confirmation and show no notice, and
\* after the toggle the stored value describes the same tasks as before.
C20_AbsentIdSilent ==
    [][ AbsentId(lastOp', todos) =>
            /\ UNCHANGED <<todos, filteredTodos>>
            /\ ~lastOp'.asked
            /\ lastOp'.notices = <<>>
            /\ StoredTasks(storage') = StoredTasks(storage)
      ]_vars

\* C20 as amended: toggle and delete of an absent id leave the collection
\* and the filtered view unchanged and ask no confirmation; delete shows no
\* notice and writes nothing; toggle writes the collection: when the write
\* fails the failure notice is shown and the stored value stays, otherwise no
\* notice is shown and the stored value describes the collection, which are
\* the tasks it described before if it described the collection before.
C20_AbsentIdNoOp ==
    [][ AbsentId(lastOp', todos) =>
            /\ UNCHANGED <<todos, filteredTodos>>
            /\ ~lastOp'.asked
            /\ lastOp'.op = "deleteTodo" =>
                  /\ lastOp'.notices = <<>>
                  /\ ~lastOp'.saved
                  /\ storage' = storage
            /\ lastOp'.op = "toggleTodoStatus" =>
                  /\ lastOp'.saved
                  /\ IF lastOp'.saveFailed
                     THEN lastOp'.notices = <<"error">> /\ storage' = storage
                     ELSE lastOp'.notices = <<>> /\ Describes(storage', todos)
                  /\ Describes(storage, todos) =>
                        StoredTasks(storage') = StoredTasks(storage)
      ]_vars

\* A toggle of an absent id brought a stale store up to date: the store held
\* no record before (the write of the add had failed) and holds one now.
C20_Witness ==
    /\ lastOp.op = "toggleTodoStatus"
    /\ \A i \in 1..Len(todos) : todos[i].id # lastOp.id
    /\ ~lastOp.saveFailed
    /\ writeFailures = 1
    /\ Len(todos) = 1
    /\ lastOp.before = todos
    /\ Describes(storage, todos)

====
